---- MODULE Spec2Model ----
(***************************************************************************)
(* Model of cmake/presets/preset_generator.py: the preset name parser      *)
(* (parse_preset_name), the directory-name derivations                     *)
(* (generate_build_dir_name, generate_install_dir_name), the document of   *)
(* generate_preset, the files written by single_preset and                 *)
(* update_includes_file, the batch driver generate_all_presets and the     *)
(* dispatch of main; and of check_convert_data of                          *)
(* python_interface/python_package/aoclda/_internal_utils.py.              *)
(*                                                                         *)
(* A Python string is modelled as a sequence of pieces; a piece is either  *)
(* the delimiter "-" or a non-empty hyphen-free word.  The string is the   *)
(* concatenation of its pieces.  str.split and str.join are computed on    *)
(* that representation.                                                    *)
(***************************************************************************)
EXTENDS Integers, Sequences, FiniteSets, TLC

VARIABLES tokens, preset_name, pc, parts, i, result, err,
          build_dir_name, install_dir_name

\* generate_preset: the inherits list and the document it returns
VARIABLES inherits, preset

docVars == <<inherits, preset>>

\* the files of the script directory: includes.json and the artifacts
VARIABLES includes_file, files

\* the processes running single_preset or update_includes_file: position,
\* argument, locals, printed messages, exit status
VARIABLES spc, sp_name, sp_preset, includes_data, printed, exit_status

\* history: the files before the run, the names whose registration completed
VARIABLES before, registered

ioVars == <<includes_file, files, spc, sp_name, sp_preset, includes_data,
            printed, exit_status, before, registered>>

parserVars == <<tokens, preset_name, pc, parts, i, result, err,
                build_dir_name, install_dir_name, docVars>>

\* generate_all_presets: arguments, loop position, counters
VARIABLES limit, dry_run, platform_idx, combo, bpc,
          total_presets, successful_presets, skipped_presets

\* history: combinations announced per platform, calls of single_preset,
\* exceptions caught by the handler of the loop body, the kinds of file the
\* calls of single_preset have opened for writing
VARIABLES announced, calls, caught, written

batchVars == <<limit, dry_run, platform_idx, combo, bpc,
               total_presets, successful_presets, skipped_presets,
               announced, calls, caught, written>>

\* main: the parsed command line, the position, what main itself printed,
\* the exit status of the process
VARIABLES args, mpc, main_printed, main_exit

mainVars == <<args, mpc, main_printed, main_exit>>

\* check_convert_data: the arguments X, dtype and force_float (X and dtype
\* are rebound by the function), the local allowed_dtypes, the position,
\* the warnings emitted, the exception raised
VARIABLES X, dtype, force_float, allowed_dtypes, cpc, warned, raised_error

\* history: whether the function has looked at X
VARIABLES x_read

convertVars == <<X, dtype, force_float, allowed_dtypes, cpc, warned,
                 raised_error, x_read>>

vars == <<parserVars, ioVars, batchVars, mainVars, convertVars>>

(***************************************************************************)
(* Bounds                                                                  *)
(***************************************************************************)
\* longest token list of the free-form input family
MaxTokens == 4

(***************************************************************************)
(* PRESET_OPTIONS: categories in declaration order with their legal tokens *)
(***************************************************************************)
PRESET_OPTIONS ==
    << [category |-> "platform",      options |-> <<"linux", "win">>],
       [category |-> "generator",     options |-> <<"make", "ninja", "msvc">>],
       [category |-> "compiler",      options |-> <<"gcc", "clang">>],
       [category |-> "threading",     options |-> <<"st", "mt">>],
       [category |-> "int_size",      options |-> <<"lp64", "ilp64">>],
       [category |-> "lib_type",      options |-> <<"static", "shared">>],
       [category |-> "build_python",  options |-> <<"python">>],
       [category |-> "arch",          options |-> <<"native", "dynamic", "znver2",
                                                    "znver3", "znver4", "znver5">>],
       [category |-> "build_type",    options |-> <<"release", "debug", "relwithdebinfo">>],
       [category |-> "sanitizer",     options |-> <<"asan">>],
       [category |-> "mem_sanitizer", options |-> <<"memsan">>],
       [category |-> "code_coverage", options |-> <<"coverage">>],
       [category |-> "valgrind",      options |-> <<"valgrind">>],
       [category |-> "documentation", options |-> <<"doc">>],
       [category |-> "libmem",        options |-> <<"libmem">>] >>

NumCategories == Len(PRESET_OPTIONS)

\* the keys of PRESET_OPTIONS, in declaration (iteration) order
CategoryOrder == [k \in 1..NumCategories |-> PRESET_OPTIONS[k].category]

Categories == {CategoryOrder[k] : k \in 1..NumCategories}

Range(s) == {s[k] : k \in 1..Len(s)}

\* the set of legal tokens of every category
OptionSets ==
    [c \in Categories |->
        LET k == CHOOSE j \in 1..NumCategories : PRESET_OPTIONS[j].category = c
        IN  Range(PRESET_OPTIONS[k].options)]

OptionsOf(c) == OptionSets[c]

\* the sentinel stored for a category no token was given for
Empty == "empty"

(***************************************************************************)
(* Strings: "-".join(list) and str.split('-')                              *)
(***************************************************************************)
Hyphen == "-"

\* "-".join(list): the items separated by hyphens; an empty item
\* contributes no piece
RECURSIVE Join(_)
Join(list) ==
    IF list = <<>> THEN <<>>
    ELSE LET head == IF Head(list) = "" THEN <<>> ELSE <<Head(list)>>
         IN  IF Len(list) = 1 THEN head
             ELSE head \o <<Hyphen>> \o Join(Tail(list))

\* s.split('-'): the maximal hyphen-free substrings, empty ones included;
\* cur is the substring collected since the last hyphen
RECURSIVE SplitFrom(_, _)
SplitFrom(s, cur) ==
    IF s = <<>> THEN <<cur>>
    ELSE IF Head(s) = Hyphen
         THEN <<cur>> \o SplitFrom(Tail(s), "")
         ELSE SplitFrom(Tail(s), cur \o Head(s))

Split(s) == SplitFrom(s, "")

(***************************************************************************)
(* parse_preset_name                                                       *)
(***************************************************************************)
\* a ValueError of parse_preset_name: its kind and the values its message
\* is formatted from
Error(kind, part, category, old, new) ==
    [kind |-> kind, part |-> part, category |-> category, old |-> old, new |-> new]

NoError == Error("none", "", "", "", "")

\* result = {category: "empty" for category in PRESET_OPTIONS}
EmptyResult == [c \in Categories |-> Empty]

\* the categories whose options contain part, in declaration order
Matches(part) == SelectSeq(CategoryOrder, LAMBDA c : part \in OptionsOf(c))

\* ParsePart that skips a part matching no category instead of raising
ParsePart_IgnoreUnknown(res, part) ==
    LET matches == Matches(part)
    IN  IF Len(matches) = 1
        THEN IF res[matches[1]] # Empty
             THEN [result |-> res,
                   err |-> Error("DuplicateCategory", part, matches[1],
                                 res[matches[1]], part)]
             ELSE [result |-> [res EXCEPT ![matches[1]] = part], err |-> NoError]
        ELSE [result |-> res, err |-> NoError]

\* ParsePart without the "already holds a value" test: the later token wins
ParsePart_Overwrite(res, part) ==
    LET matches == Matches(part)
    IN  IF Len(matches) = 1
        THEN [result |-> [res EXCEPT ![matches[1]] = part], err |-> NoError]
        ELSE [result |-> res,
              err |-> Error("UnrecognizedToken", part, "", "", "")]

\* ParsePart that takes a token only once the platform is recorded
ParsePart_PlatformFirst(res, part) ==
    LET matches == Matches(part)
    IN  IF Len(matches) = 1 /\ (matches[1] = "platform" \/ res["platform"] # Empty)
        THEN IF res[matches[1]] # Empty
             THEN [result |-> res,
                   err |-> Error("DuplicateCategory", part, matches[1],
                                 res[matches[1]], part)]
             ELSE [result |-> [res EXCEPT ![matches[1]] = part], err |-> NoError]
        ELSE [result |-> res,
              err |-> Error("UnrecognizedToken", part, "", "", "")]

\* the body of "for part in parts": the updated result, or the error raised
ParsePart(res, part) ==
    LET matches == Matches(part)
    IN  IF Len(matches) > 1
        THEN [result |-> res,
              err |-> Error("AmbiguousToken", part, "", "", "")]
        ELSE IF Len(matches) = 1
        THEN LET category == matches[1]
             IN  IF res[category] # Empty
                 THEN [result |-> res,
                       err |-> Error("DuplicateCategory", part, category,
                                     res[category], part)]
                 ELSE [result |-> [res EXCEPT ![category] = part],
                       err |-> NoError]
        ELSE [result |-> res,
              err |-> Error("UnrecognizedToken", part, "", "", "")]

\* the generator forced to msvc on every platform
ForceWindowsGenerator_Always(res) == [res EXCEPT !["generator"] = "msvc"]

\* the generator never forced
ForceWindowsGenerator_Never(res) == res

\* if result["platform"] == "win": result["generator"] = "msvc"
ForceWindowsGenerator(res) ==
    IF res["platform"] = "win" THEN [res EXCEPT !["generator"] = "msvc"] ELSE res

\* the two validations in the opposite order
Validate_PythonFirst(res) ==
    IF res["lib_type"] = "static" /\ res["build_python"] = "python"
    THEN Error("StaticPythonConflict", "", "lib_type", "", "")
    ELSE IF res["platform"] = "win" /\ res["compiler"] # Empty
    THEN Error("IncompatiblePlatformCompiler", "", "compiler", "", "")
    ELSE NoError

\* the platform/compiler validation left out
Validate_NoCompilerCheck(res) ==
    IF res["lib_type"] = "static" /\ res["build_python"] = "python"
    THEN Error("StaticPythonConflict", "", "lib_type", "", "")
    ELSE NoError

\* the static/python validation left out
Validate_NoPythonCheck(res) ==
    IF res["platform"] = "win" /\ res["compiler"] # Empty
    THEN Error("IncompatiblePlatformCompiler", "", "compiler", "", "")
    ELSE NoError

\* the two validations that follow the loop, in the order of the code
Validate(res) ==
    IF res["platform"] = "win" /\ res["compiler"] # Empty
    THEN Error("IncompatiblePlatformCompiler", "", "compiler", "", "")
    ELSE IF res["lib_type"] = "static" /\ res["build_python"] = "python"
    THEN Error("StaticPythonConflict", "", "lib_type", "", "")
    ELSE NoError

(***************************************************************************)
(* generate_build_dir_name, generate_install_dir_name                      *)
(***************************************************************************)
\* the loop of generate_build_dir_name from the k-th category on
RECURSIVE BuildDirParts(_, _)
BuildDirParts(components, k) ==
    IF k > NumCategories THEN <<>>
    ELSE LET category == CategoryOrder[k]
             rest == BuildDirParts(components, k + 1)
         IN  IF components[category] # Empty
             THEN IF category = "generator" /\ components["platform"] = "win"
                  THEN rest
                  ELSE <<components[category]>> \o rest
             ELSE rest

\* the build directory name without the Windows exception for the generator
generate_build_dir_name_KeepGenerator(components) ==
    Join(SelectSeq([k \in 1..NumCategories |-> components[CategoryOrder[k]]],
                   LAMBDA v : v # Empty))

generate_build_dir_name(components) == Join(BuildDirParts(components, 1))

\* the skip list without "generator"
skip_categories_NoGenerator ==
    {"int_size", "lib_type", "build_python", "documentation", "threading"}

skip_categories ==
    {"int_size", "lib_type", "build_python", "documentation", "generator", "threading"}

\* the loop of generate_install_dir_name from the k-th category on
RECURSIVE InstallDirParts(_, _)
InstallDirParts(components, k) ==
    IF k > NumCategories THEN <<>>
    ELSE LET category == CategoryOrder[k]
             rest == InstallDirParts(components, k + 1)
         IN  IF category \in skip_categories
             THEN rest
             ELSE IF components[category] # Empty
                  THEN <<components[category]>> \o rest
                  ELSE rest

generate_install_dir_name(components) == Join(InstallDirParts(components, 1))

(***************************************************************************)
(* generate_preset: the inherits list and the preset document              *)
(***************************************************************************)
\* the inherits list built with the exclusions of the build directory name
InheritsList_AsBuildDir(components) == <<"base">> \o BuildDirParts(components, 1)

\* the loop over components.items() from the k-th category on; the dict
\* iterates in the insertion order of its keys, the order of PRESET_OPTIONS
RECURSIVE InheritsFrom(_, _)
InheritsFrom(components, k) ==
    IF k > NumCategories THEN <<>>
    ELSE LET value == components[CategoryOrder[k]]
             rest == InheritsFrom(components, k + 1)
         IN  IF value # Empty THEN <<value>> \o rest ELSE rest

InheritsList(components) == <<"base">> \o InheritsFrom(components, 1)

\* a dict display in which the first of two equal keys wins
DictDisplay_FirstWins(pairs) ==
    [key \in {pairs[k][1] : k \in 1..Len(pairs)} |->
        LET first == CHOOSE k \in 1..Len(pairs) :
                        /\ pairs[k][1] = key
                        /\ \A j \in 1..(k - 1) : pairs[j][1] # key
        IN  pairs[first][2]]

\* a Python dict display {k1: v1, k2: v2, ...}: the pairs are stored from
\* left to right, a later pair replacing the value of an equal earlier key
DictDisplay(pairs) ==
    [key \in {pairs[k][1] : k \in 1..Len(pairs)} |->
        LET last == CHOOSE k \in 1..Len(pairs) :
                       /\ pairs[k][1] = key
                       /\ \A j \in (k + 1)..Len(pairs) : pairs[j][1] # key
        IN  pairs[last][2]]

\* preset_name + "-install"
InstallName(name) == name \o <<Hyphen, "install">>

\* the value of preset before generate_preset has assembled it
NoPreset == [version |-> 0]

\* the preset structure without the "-install" build stanza
PresetDocument_NoInstallStanza(name, inh, build_dir, install_dir) ==
    [version |-> 6,
     include |-> <<"base.json">>,
     configurePresets |->
        << [name |-> name,
            inherits |-> inh,
            cacheVariables |->
                [CMAKE_INSTALL_PREFIX |-> <<"${sourceDir}/install", Hyphen>> \o install_dir],
            binaryDir |-> <<"${sourceDir}/build", Hyphen>> \o build_dir,
            hidden |-> FALSE] >>,
     buildPresets |->
        << [name |-> name, configurePreset |-> name, inherits |-> "base"] >>,
     testPresets |->
        << [name |-> name, configurePreset |-> name, inherits |-> "base"] >>,
     workflowPresets |->
        << [name |-> name,
            description |-> "Build and check AOCL-DA",
            steps |->
               << DictDisplay(<< <<"type", <<"configure">> >>, <<"name", name>> >>),
                  DictDisplay(<< <<"type", <<"build">> >>, <<"name", name>>,
                                 <<"name", InstallName(name)>> >>),
                  DictDisplay(<< <<"type", <<"test">> >>, <<"name", name>> >>) >>] >>]

\* the preset structure of generate_preset
PresetDocument(name, inh, build_dir, install_dir) ==
    [version |-> 6,
     include |-> <<"base.json">>,
     configurePresets |->
        << [name |-> name,
            inherits |-> inh,
            cacheVariables |->
                [CMAKE_INSTALL_PREFIX |-> <<"${sourceDir}/install", Hyphen>> \o install_dir],
            binaryDir |-> <<"${sourceDir}/build", Hyphen>> \o build_dir,
            hidden |-> FALSE] >>,
     buildPresets |->
        << [name |-> name, configurePreset |-> name, inherits |-> "base"],
           [name |-> InstallName(name), configurePreset |-> name, inherits |-> "base",
            targets |-> "install"] >>,
     testPresets |->
        << [name |-> name, configurePreset |-> name, inherits |-> "base"] >>,
     workflowPresets |->
        << [name |-> name,
            description |-> "Build and check AOCL-DA",
            steps |->
               << DictDisplay(<< <<"type", <<"configure">> >>, <<"name", name>> >>),
                  DictDisplay(<< <<"type", <<"build">> >>, <<"name", name>>,
                                 <<"name", InstallName(name)>> >>),
                  DictDisplay(<< <<"type", <<"test">> >>, <<"name", name>> >>) >>] >>]

(***************************************************************************)
(* parse_preset_name and generate_preset as functions of the name          *)
(***************************************************************************)
\* "for part in parts" from the k-th part on
RECURSIVE ParseParts(_, _, _)
ParseParts(ps, k, res) ==
    IF k > Len(ps) THEN [result |-> res, err |-> NoError]
    ELSE LET step == ParsePart(res, ps[k])
         IN  IF step.err # NoError THEN step
             ELSE ParseParts(ps, k + 1, step.result)

\* the configuration returned, or the ValueError raised (err # NoError)
parse_preset_name(name) ==
    LET ps == Split(name)
    IN  IF ps = <<>>
        THEN [result |-> EmptyResult, err |-> Error("EmptyName", "", "", "", "")]
        ELSE LET loop == ParseParts(ps, 1, EmptyResult)
             IN  IF loop.err # NoError THEN loop
                 ELSE LET res == ForceWindowsGenerator(loop.result)
                      IN  [result |-> res, err |-> Validate(res)]

\* generate_preset that goes on after the error message instead of exiting
generate_preset_NoExit(name) ==
    LET parsed == parse_preset_name(name)
    IN  [exit |-> FALSE,
         preset |-> PresetDocument(name,
                                   InheritsList(parsed.result),
                                   generate_build_dir_name(parsed.result),
                                   generate_install_dir_name(parsed.result))]

\* the document returned, or sys.exit(1) after the diagnostic (exit = TRUE)
generate_preset(name) ==
    LET parsed == parse_preset_name(name)
    IN  IF parsed.err # NoError
        THEN [exit |-> TRUE, preset |-> NoPreset]
        ELSE [exit |-> FALSE,
              preset |-> PresetDocument(name,
                                        InheritsList(parsed.result),
                                        generate_build_dir_name(parsed.result),
                                        generate_install_dir_name(parsed.result))]

(***************************************************************************)
(* Files                                                                   *)
(***************************************************************************)
Procs == {1, 2}

\* f"{preset_name}.json"
FileName(name) == name \o <<".json">>

AbsentFile == [state |-> "absent", include |-> <<>>, preset |-> NoPreset]

\* a file left truncated or half written by a write that failed
CorruptFile == [state |-> "corrupt", include |-> <<>>, preset |-> NoPreset]

\* includes.json holding {"include": list}
IncludesJson(list) == [state |-> "json", include |-> list, preset |-> NoPreset]

\* <name>.json holding the dumped preset
PresetJson(doc) == [state |-> "json", include |-> <<>>, preset |-> doc]

\* preset names of the file-level runs: two that parse, one that pairs
\* static with python, one with an unknown token
IoNames ==
    {Join(<<"linux", "gcc">>), Join(<<"win", "static">>),
     Join(<<"linux", "static", "python">>), Join(<<"linux", "foo">>)}

\* no process has been started; no file exists
IoIdle ==
    /\ includes_file = AbsentFile
    /\ files = [n \in IoNames |-> AbsentFile]
    /\ spc = [p \in Procs |-> "idle"]
    /\ sp_name = [p \in Procs |-> <<>>]
    /\ sp_preset = [p \in Procs |-> NoPreset]
    /\ includes_data = [p \in Procs |-> <<>>]
    /\ printed = [p \in Procs |-> <<>>]
    /\ exit_status = [p \in Procs |-> 0]
    /\ before = [includes_file |-> AbsentFile, files |-> [n \in IoNames |-> AbsentFile]]
    /\ registered = {}

(***************************************************************************)
(* generate_all_presets: arguments and enumeration                         *)
(***************************************************************************)
\* the limit argument: None, or an integer
NoLimit == [given |-> FALSE, n |-> 0]

IntLimit(n) == [given |-> TRUE, n |-> n]

\* "if limit": None and 0 are false
Truthy(lim) == lim.given /\ lim.n # 0

platforms == <<"linux", "win">>

\* the option lists of generate_all_presets
compilers == <<"gcc", "clang">>
threading == <<"st", "mt">>
int_size == <<"lp64", "ilp64">>
lib_type == <<"static", "shared">>
build_type == <<"release", "debug">>
arch == <<"native", "dynamic">>
build_python == <<"", "python">>

\* the concatenation of a sequence of sequences
RECURSIVE Flatten(_)
Flatten(ss) == IF ss = <<>> THEN <<>> ELSE Head(ss) \o Flatten(Tail(ss))

\* itertools.product(*lists): the tuples in order, the last list varying
\* fastest
RECURSIVE Product(_)
Product(lists) ==
    IF lists = <<>> THEN << <<>> >>
    ELSE LET rest == Product(Tail(lists))
             first == Head(lists)
         IN  Flatten([a \in 1..Len(first) |->
                        [b \in 1..Len(rest) |-> <<first[a]>> \o rest[b]]])

\* the tuples the inner loop of each platform runs over
Combinations ==
    << Product(<<compilers, threading, int_size, lib_type, build_type, arch, build_python>>),
       Product(<<threading, int_size, lib_type, build_type, arch, build_python>>) >>

\* generate_all_presets has not been called
BatchIdle ==
    /\ limit = NoLimit
    /\ dry_run = FALSE
    /\ platform_idx = 1
    /\ combo = 1
    /\ bpc = "idle"
    /\ total_presets = 0
    /\ successful_presets = 0
    /\ skipped_presets = 0
    /\ announced = [k \in 1..2 |-> 0]
    /\ calls = 0
    /\ caught = 0
    /\ written = {}

(***************************************************************************)
(* main: the command line                                                  *)
(***************************************************************************)
\* the positional preset_name (nargs="?"): None, or a string; the empty
\* string is the empty sequence of pieces
NoName == [given |-> FALSE, s |-> <<>>]

NameArg(s) == [given |-> TRUE, s |-> s]

\* "elif args.preset_name": None and "" are false
NameTruthy(name) == name.given /\ name.s # <<>>

\* main has not been called
MainIdle ==
    /\ args = [generate_all |-> FALSE, preset_name |-> NoName,
               dry_run |-> FALSE, limit |-> NoLimit]
    /\ mpc = "idle"
    /\ main_printed = <<>>
    /\ main_exit = 0

(***************************************************************************)
(* check_convert_data: values                                              *)
(***************************************************************************)
\* a Python value tagged with its type, so that the string '1', the integer
\* 1 and True are three values
Str(s) == <<"str", s>>

PyInt(s) == <<"int", s>>

PyBool(s) == <<"bool", s>>

\* a NumPy dtype, by its name
NpDtype(name) == <<"numpy.dtype", name>>

NoArray == [kind |-> "none", elem |-> "none"]

\* check_convert_data has not been called
ConvertIdle ==
    /\ X = NoArray
    /\ dtype = Str("float64")
    /\ force_float = TRUE
    /\ allowed_dtypes = {}
    /\ cpc = "idle"
    /\ warned = <<>>
    /\ raised_error = "none"
    /\ x_read = FALSE

(***************************************************************************)
(* Inputs                                                                  *)
(***************************************************************************)
\* one legal token for each of the categories k..NumCategories, in
\* declaration order
RECURSIVE TokenChoices(_)
TokenChoices(k) ==
    IF k > NumCategories THEN {<<>>}
    ELSE {<<t>> \o rest : t \in Range(PRESET_OPTIONS[k].options),
                          rest \in TokenChoices(k + 1)}

\* the chosen tokens without the compiler token when the platform is win
DropCompilerOnWin(choice) ==
    IF choice[1] = "win"
    THEN SelectSeq(choice, LAMBDA t : t \notin OptionsOf("compiler"))
    ELSE choice

\* token lists of the well-formed names: one legal token per category in
\* declaration order, static never paired with python
WellFormedTokens ==
    {DropCompilerOnWin(ch) :
        ch \in {c \in TokenChoices(1) : ~("static" \in Range(c) /\ "python" \in Range(c))}}

\* tokens of the free-form names: legal tokens of several categories, a word
\* that is no legal token, and the empty token (two adjacent hyphens, a
\* leading or trailing hyphen, the empty name)
Vocabulary == {"linux", "win", "gcc", "make", "static", "python", "foo", ""}

FreeTokens == UNION {[1..n -> Vocabulary] : n \in 1..MaxTokens}

\* a name whose tokens are not in declaration order
ExampleTokens ==
    { <<"linux", "make", "gcc", "mt", "lp64", "static", "release", "znver3">> }

Inputs == WellFormedTokens \cup FreeTokens \cup ExampleTokens

(***************************************************************************)
(* State machine: generate_preset's calls, parse_preset_name step by step  *)
(***************************************************************************)
Init ==
    /\ tokens \in Inputs
    /\ preset_name = Join(tokens)
    /\ pc = "start"
    /\ parts = <<>>
    /\ i = 0
    /\ result = EmptyResult
    /\ err = NoError
    /\ build_dir_name = <<>>
    /\ install_dir_name = <<>>
    /\ inherits = <<>>
    /\ preset = NoPreset
    /\ IoIdle
    /\ BatchIdle
    /\ MainIdle
    /\ ConvertIdle

\* parts = preset_name.split('-'); if not parts: raise; result = {...}
SplitName ==
    /\ pc = "start"
    /\ parts' = Split(preset_name)
    /\ IF parts' = <<>>
       THEN /\ pc' = "raised"
            /\ err' = Error("EmptyName", "", "", "", "")
            /\ UNCHANGED <<i, result>>
       ELSE /\ pc' = "loop"
            /\ i' = 1
            /\ result' = EmptyResult
            /\ UNCHANGED err
    /\ UNCHANGED <<tokens, preset_name, build_dir_name, install_dir_name>>
    /\ UNCHANGED docVars
    /\ UNCHANGED <<ioVars, batchVars, mainVars, convertVars>>

\* one iteration of "for part in parts"
ParseNextPart ==
    /\ pc = "loop"
    /\ i <= Len(parts)
    /\ LET step == ParsePart(result, parts[i])
       IN  IF step.err # NoError
           THEN /\ pc' = "raised"
                /\ err' = step.err
                /\ UNCHANGED <<i, result>>
           ELSE /\ result' = step.result
                /\ i' = i + 1
                /\ UNCHANGED <<pc, err>>
    /\ UNCHANGED <<tokens, preset_name, parts, build_dir_name, install_dir_name>>
    /\ UNCHANGED docVars
    /\ UNCHANGED <<ioVars, batchVars, mainVars, convertVars>>

\* the statements after the loop: force msvc on Windows, validate, return
FinishParse ==
    /\ pc = "loop"
    /\ i > Len(parts)
    /\ result' = ForceWindowsGenerator(result)
    /\ LET e == Validate(result')
       IN  IF e # NoError
           THEN pc' = "raised" /\ err' = e
           ELSE pc' = "returned" /\ UNCHANGED err
    /\ UNCHANGED <<tokens, preset_name, parts, i, build_dir_name, install_dir_name>>
    /\ UNCHANGED docVars
    /\ UNCHANGED <<ioVars, batchVars, mainVars, convertVars>>

\* inherits = ["base"] followed by the non-empty values of components
BuildInherits ==
    /\ pc = "returned"
    /\ inherits' = InheritsList(result)
    /\ pc' = "inherits"
    /\ UNCHANGED <<tokens, preset_name, parts, i, result, err,
                   build_dir_name, install_dir_name, preset>>
    /\ UNCHANGED <<ioVars, batchVars, mainVars, convertVars>>

\* build_dir_name = generate_build_dir_name(components)
DeriveBuildDir ==
    /\ pc = "inherits"
    /\ build_dir_name' = generate_build_dir_name(result)
    /\ pc' = "built"
    /\ UNCHANGED <<tokens, preset_name, parts, i, result, err, install_dir_name>>
    /\ UNCHANGED docVars
    /\ UNCHANGED <<ioVars, batchVars, mainVars, convertVars>>

\* install_dir_name = generate_install_dir_name(components)
DeriveInstallDir ==
    /\ pc = "built"
    /\ install_dir_name' = generate_install_dir_name(result)
    /\ pc' = "done"
    /\ UNCHANGED <<tokens, preset_name, parts, i, result, err, build_dir_name>>
    /\ UNCHANGED docVars
    /\ UNCHANGED <<ioVars, batchVars, mainVars, convertVars>>

\* preset = {...}; return preset
AssemblePreset ==
    /\ pc = "done"
    /\ preset' = PresetDocument(preset_name, inherits, build_dir_name, install_dir_name)
    /\ pc' = "preset"
    /\ UNCHANGED <<tokens, preset_name, parts, i, result, err,
                   build_dir_name, install_dir_name, inherits>>
    /\ UNCHANGED <<ioVars, batchVars, mainVars, convertVars>>

Next ==
    \/ SplitName
    \/ ParseNextPart
    \/ FinishParse
    \/ BuildInherits
    \/ DeriveBuildDir
    \/ DeriveInstallDir
    \/ AssemblePreset

Spec == Init /\ [][Next]_vars

TypeOK ==
    /\ pc \in {"start", "loop", "raised", "returned", "inherits", "built", "done", "preset"}
    /\ result \in [Categories -> STRING]
    /\ i \in 0..(Len(parts) + 1)

(***************************************************************************)
(* Vocabulary of the properties                                            *)
(***************************************************************************)
\* parse_preset_name has ended, by return or by raise
Finished == pc \notin {"start", "loop"}

\* parse_preset_name has returned a configuration
Returned == pc \in {"returned", "inherits", "built", "done", "preset"}

Raised(kind) == pc = "raised" /\ err.kind = kind

CategoriesOfToken(t) == {c \in Categories : t \in OptionsOf(c)}

Legal(t) == CategoriesOfToken(t) # {}

SameCategory(t, u) == CategoriesOfToken(t) \cap CategoriesOfToken(u) # {}

\* the token the list supplies for category c, the sentinel if none
Supplied(ts, c) ==
    IF \E k \in 1..Len(ts) : ts[k] \in OptionsOf(c)
    THEN ts[CHOOSE k \in 1..Len(ts) : ts[k] \in OptionsOf(c)]
    ELSE Empty

\* position k repeats the category of an earlier position
Repeats(ts, k) == \E j \in 1..(k - 1) : SameCategory(ts[j], ts[k])

AllLegalDistinct(ts) ==
    \A k \in 1..Len(ts) : Legal(ts[k]) /\ ~Repeats(ts, k)

HasWinAndCompiler(ts) ==
    "win" \in Range(ts) /\ Range(ts) \cap OptionsOf("compiler") # {}

HasStaticAndPython(ts) == "static" \in Range(ts) /\ "python" \in Range(ts)

\* position k is offending: its token is no legal token, or repeats a category
Offending(ts, k) == ~Legal(ts[k]) \/ Repeats(ts, k)

\* position k is the first offending one
FirstOffending(ts, k) ==
    Offending(ts, k) /\ \A j \in 1..(k - 1) : ~Offending(ts, j)

\* the non-sentinel values of cfg for the categories satisfying keep, in
\* declaration order
OrderedValues(cfg, keep(_)) ==
    LET cats == SelectSeq(CategoryOrder, LAMBDA c : keep(c) /\ cfg[c] # Empty)
    IN  [k \in 1..Len(cats) |-> cfg[cats[k]]]

(***************************************************************************)
(* C1                                                                      *)
(***************************************************************************)
\* C1 (as stated): for every name joining one legal token per category in
\* declaration order (no compiler token on win, static never with python),
\* parse_preset_name succeeds and returns, for every category, exactly the
\* supplied token.
C1_RecoversSuppliedTokens ==
    tokens \in WellFormedTokens =>
        /\ pc # "raised"
        /\ Returned => \A c \in Categories : result[c] = Supplied(tokens, c)

\* C1 (amended): as above, except that on platform win the generator
\* category holds "msvc" whatever generator token was supplied.
C1_RecoversSuppliedTokensButWinGenerator ==
    tokens \in WellFormedTokens =>
        /\ pc # "raised"
        /\ Returned =>
             \A c \in Categories :
                result[c] = IF c = "generator" /\ Supplied(tokens, "platform") = "win"
                            THEN "msvc"
                            ELSE Supplied(tokens, c)

C1_Witness ==
    /\ pc = "done"
    /\ tokens \in WellFormedTokens
    /\ Supplied(tokens, "platform") = "win"
    /\ Supplied(tokens, "generator") = "ninja"
    /\ result["arch"] = "znver3"

(***************************************************************************)
(* C2                                                                      *)
(***************************************************************************)
\* C2: every configuration parse_preset_name returns has platform linux or
\* win; a name without a platform token is never accepted.
C2_PlatformAlwaysSet ==
    Returned => /\ result["platform"] \in {"linux", "win"}
                /\ Range(tokens) \cap OptionsOf("platform") # {}

(***************************************************************************)
(* C3                                                                      *)
(***************************************************************************)
\* C3: a returned configuration with platform win has the compiler unset and
\* the generator "msvc", whatever generator token the name carried.
C3_WinForcesMsvc ==
    Returned /\ result["platform"] = "win" =>
        result["compiler"] = Empty /\ result["generator"] = "msvc"

C3_Witness ==
    /\ pc = "returned"
    /\ result["platform"] = "win"
    /\ "make" \in Range(tokens)
    /\ result["generator"] = "msvc"

(***************************************************************************)
(* C4                                                                      *)
(***************************************************************************)
\* C4 (as stated): a name containing both win and a compiler token fails with
\* IncompatiblePlatformCompiler.
C4_WinCompilerFailsIncompatible ==
    Finished /\ HasWinAndCompiler(tokens) => Raised("IncompatiblePlatformCompiler")

\* C4 (amended): a name containing both win and a compiler token fails; the
\* failure is IncompatiblePlatformCompiler when all its tokens are legal and
\* of distinct categories.
C4_WinCompilerFails ==
    Finished /\ HasWinAndCompiler(tokens) =>
        /\ pc = "raised"
        /\ AllLegalDistinct(tokens) => Raised("IncompatiblePlatformCompiler")

C4_Witness ==
    /\ Raised("IncompatiblePlatformCompiler")
    /\ HasWinAndCompiler(tokens)
    /\ HasStaticAndPython(tokens)

(***************************************************************************)
(* C5                                                                      *)
(***************************************************************************)
\* no configuration pairing static with python is returned
NoStaticPythonReturned ==
    Returned => ~(result["lib_type"] = "static" /\ result["build_python"] = "python")

\* C5 (as stated): a name of legal tokens of distinct categories containing
\* static and python fails with StaticPythonConflict; no configuration with
\* static and python is returned.
C5_StaticPythonFailsConflict ==
    /\ Finished /\ AllLegalDistinct(tokens) /\ HasStaticAndPython(tokens)
          => Raised("StaticPythonConflict")
    /\ NoStaticPythonReturned

\* C5 (amended): such a name fails, with StaticPythonConflict unless it also
\* contains win and a compiler token, when it fails with
\* IncompatiblePlatformCompiler; no configuration with static and python is
\* returned.
C5_StaticPythonFails ==
    /\ Finished /\ AllLegalDistinct(tokens) /\ HasStaticAndPython(tokens)
          => IF HasWinAndCompiler(tokens)
             THEN Raised("IncompatiblePlatformCompiler")
             ELSE Raised("StaticPythonConflict")
    /\ NoStaticPythonReturned

C5_Witness ==
    /\ Raised("StaticPythonConflict")
    /\ tokens = <<"linux", "gcc", "static", "python">>

(***************************************************************************)
(* C6                                                                      *)
(***************************************************************************)
\* C6: parse_preset_name of the empty string fails with EmptyName and with no
\* other error kind.
C6_EmptyNameError ==
    Finished /\ preset_name = <<>> => Raised("EmptyName")

(***************************************************************************)
(* C7                                                                      *)
(***************************************************************************)
\* a name is accepted only if each token is legal in exactly one category
AcceptedOnlyLegal ==
    Returned => \A k \in 1..Len(tokens) : Cardinality(CategoriesOfToken(tokens[k])) = 1

\* C7 (as stated): a name with a token of no category fails with
\* UnrecognizedToken naming such a token; accepted names have only legal
\* tokens.
C7_UnknownTokenUnrecognized ==
    /\ Finished /\ (\E k \in 1..Len(tokens) : ~Legal(tokens[k]))
          => Raised("UnrecognizedToken") /\ ~Legal(err.part)
    /\ AcceptedOnlyLegal

\* C7 (amended): a name with a token of no category fails and returns no
\* configuration; the error is UnrecognizedToken naming that token when it is
\* the first offending token of the name (no token before it is unknown or
\* repeats a category); accepted names have only legal tokens.
C7_UnknownTokenFails ==
    /\ Finished /\ (\E k \in 1..Len(tokens) : ~Legal(tokens[k])) => pc = "raised"
    /\ \A k \in 1..Len(tokens) :
          Finished /\ ~Legal(tokens[k]) /\ FirstOffending(tokens, k)
             => Raised("UnrecognizedToken") /\ err.part = tokens[k] /\ i = k
    /\ AcceptedOnlyLegal

C7_Witness ==
    /\ Raised("UnrecognizedToken")
    /\ err.part = "foo"
    /\ i = 3
    /\ result["platform"] = "linux"

(***************************************************************************)
(* C8                                                                      *)
(***************************************************************************)
\* a step of the token loop leaves every recorded value as it is
RecordedValuesKept ==
    pc = "loop" /\ i <= Len(parts) =>
        \A c \in Categories : result[c] # Empty => result'[c] = result[c]

\* C8 (as stated): a name with two tokens of one category fails with
\* DuplicateCategory at the second of them; a later token never overwrites a
\* recorded value.
C8_DuplicateFailsDuplicate ==
    /\ [](\A k \in 1..Len(tokens) :
            Finished /\ Legal(tokens[k]) /\ Repeats(tokens, k)
               => Raised("DuplicateCategory"))
    /\ [][RecordedValuesKept]_vars

\* C8 (amended): such a name fails; the error is DuplicateCategory at the
\* second of the two tokens, naming the category, the recorded value and the
\* new one, when that token is the first offending token of the name; a
\* later token never overwrites a recorded value.
C8_DuplicateFails ==
    /\ [](\A k \in 1..Len(tokens) :
            Finished /\ Legal(tokens[k]) /\ Repeats(tokens, k)
               => /\ pc = "raised"
                  /\ FirstOffending(tokens, k)
                       => /\ Raised("DuplicateCategory")
                          /\ i = k
                          /\ err.new = tokens[k]
                          /\ err.category \in CategoriesOfToken(tokens[k])
                          /\ err.old = result[err.category]
                          /\ \E j \in 1..(k - 1) : tokens[j] = err.old)
    /\ [][RecordedValuesKept]_vars

C8_Witness ==
    /\ Raised("DuplicateCategory")
    /\ err.old = "linux"
    /\ err.new = "win"
    /\ result["platform"] = "linux"

(***************************************************************************)
(* C9                                                                      *)
(***************************************************************************)
\* C9: generate_build_dir_name is the hyphen-joined sequence of the
\* non-sentinel values in declaration order, the generator value left out
\* exactly when platform is win.
C9_BuildDirName ==
    pc \in {"built", "done"} =>
        LET keep(c) == ~(c = "generator" /\ result["platform"] = "win")
            expected == OrderedValues(result, keep)
        IN  /\ build_dir_name = Join(expected)
            /\ Split(build_dir_name) = expected

C9_Witness ==
    /\ pc = "built"
    /\ result["platform"] = "win"
    /\ result["generator"] = "msvc"
    /\ Split(build_dir_name) = <<"win", "static">>

(***************************************************************************)
(* C10                                                                     *)
(***************************************************************************)
InstallSkipped ==
    {"int_size", "lib_type", "build_python", "documentation", "generator", "threading"}

\* C10: generate_install_dir_name is the hyphen-joined sequence of the
\* non-sentinel values, in declaration order, of the categories outside the
\* six skipped ones, on either platform; it holds no token of a skipped
\* category.
C10_InstallDirName ==
    pc = "done" =>
        LET keep(c) == c \notin InstallSkipped
            expected == OrderedValues(result, keep)
            got == Split(install_dir_name)
        IN  /\ install_dir_name = Join(expected)
            /\ \A k \in 1..Len(got) : \A c \in InstallSkipped : got[k] \notin OptionsOf(c)
            /\ expected # <<>> => got = expected

C10_Witness ==
    /\ pc = "done"
    /\ "static" \in Range(Split(build_dir_name))
    /\ "make" \in Range(Split(build_dir_name))
    /\ Split(install_dir_name) = <<"linux", "gcc">>

(***************************************************************************)
(* C11                                                                     *)
(***************************************************************************)
IsGeneratorToken(t) == t \in OptionsOf("generator")

\* C11: the configure preset's inherits list is "base" followed by every
\* non-sentinel value of the configuration in declaration order; on Windows
\* it contains the synthesized "msvc" while the binaryDir and the install
\* prefix of the same document contain no generator token.
C11_InheritsList ==
    pc = "preset" =>
        LET all(c) == TRUE
            configure == preset.configurePresets[1]
            build_tokens == Range(Split(configure.binaryDir))
            install_tokens == Range(Split(configure.cacheVariables.CMAKE_INSTALL_PREFIX))
        IN  /\ Len(preset.configurePresets) = 1
            /\ configure.inherits = <<"base">> \o OrderedValues(result, all)
            /\ result["platform"] = "win" =>
                  /\ "msvc" \in Range(configure.inherits)
                  /\ \A t \in build_tokens \cup install_tokens : ~IsGeneratorToken(t)

C11_Witness ==
    /\ pc = "preset"
    /\ preset.configurePresets[1].inherits = <<"base", "win", "msvc", "static">>
    /\ preset.configurePresets[1].binaryDir = <<"${sourceDir}/build", "-", "win", "-", "static">>
    /\ "make" \in Range(tokens)

(***************************************************************************)
(* C12                                                                     *)
(***************************************************************************)
\* C12: the workflow stanza has exactly three steps, of types configure,
\* build, test in that order; the configure and test steps reference <name>,
\* the build step references <name>-install and not <name>.
C12_WorkflowSteps ==
    pc = "preset" =>
        LET steps == preset.workflowPresets[1].steps
        IN  /\ Len(preset.workflowPresets) = 1
            /\ Len(steps) = 3
            /\ \A k \in 1..3 : DOMAIN steps[k] = {"type", "name"}
            /\ steps[1]["type"] = <<"configure">>
            /\ steps[2]["type"] = <<"build">>
            /\ steps[3]["type"] = <<"test">>
            /\ steps[1]["name"] = preset_name
            /\ steps[3]["name"] = preset_name
            /\ steps[2]["name"] = preset_name \o <<"-", "install">>
            /\ steps[2]["name"] # preset_name
            /\ steps[2]["name"] = preset.buildPresets[2].name

C12_Witness ==
    /\ pc = "preset"
    /\ preset_name = <<"linux", "-", "gcc">>
    /\ preset.workflowPresets[1].steps[2]["name"] = <<"linux", "-", "gcc", "-", "install">>

(***************************************************************************)
(* single_preset and update_includes_file, one action per statement that   *)
(* reads or writes a file.  A write is atomic unless it fails; a failed    *)
(* write leaves the file as it was (open failed) or corrupt (the file was  *)
(* truncated and the dump did not complete).                               *)
(***************************************************************************)
\* the outcomes of a failed write of a file
FailedWrite(file) == {file, CorruptFile}

\* includes_data after the update that appends without the membership test
UpdatedIncludes_AlwaysAppend(data, preset_file) == Append(data, preset_file)

\* includes_data after "if preset_file not in ...: append(preset_file)"
UpdatedIncludes(data, preset_file) ==
    IF preset_file \notin Range(data) THEN Append(data, preset_file) ELSE data

\* the test of line 234 taken as always true
MustCreate_Always(file) == TRUE

\* not includes_file.exists()
MustCreate(file) == file.state = "absent"

\* the write-back that stores what the file holds now plus the new entry
WrittenIncludes_Merged(data, file) ==
    IncludesJson(file.include \o
                 SelectSeq(data, LAMBDA f : f \notin Range(file.include)))

\* json.dump(includes_data, f): the file holds the local copy
WrittenIncludes(data, file) == IncludesJson(data)

ioLocals == <<sp_name, sp_preset, includes_data, exit_status>>

\* preset = generate_preset(preset_name)
SPGenerate(p) ==
    /\ spc[p] = "generate"
    /\ LET g == generate_preset(sp_name[p])
       IN  IF g.exit
           THEN /\ spc' = [spc EXCEPT ![p] = "exit"]
                /\ exit_status' = [exit_status EXCEPT ![p] = 1]
                /\ printed' = [printed EXCEPT ![p] = @ \o <<"Error", "ValidFormatExamples">>]
                /\ UNCHANGED sp_preset
           ELSE /\ spc' = [spc EXCEPT ![p] = "write_artifact"]
                /\ sp_preset' = [sp_preset EXCEPT ![p] = g.preset]
                /\ UNCHANGED <<exit_status, printed>>
    /\ UNCHANGED <<includes_file, files, sp_name, includes_data, before, registered>>
    /\ UNCHANGED <<parserVars, batchVars, mainVars, convertVars>>

\* with output_file.open('w') as f: json.dump(preset, f)
SPWriteArtifact(p) ==
    /\ spc[p] = "write_artifact"
    /\ files' = [files EXCEPT ![sp_name[p]] = PresetJson(sp_preset[p])]
    /\ printed' = [printed EXCEPT ![p] = Append(@, "Generated")]
    /\ spc' = [spc EXCEPT ![p] = "uif_exists"]
    /\ UNCHANGED <<includes_file, ioLocals, before, registered>>
    /\ UNCHANGED <<parserVars, batchVars, mainVars, convertVars>>

\* the write of the artifact raises
SPWriteArtifactFails(p) ==
    /\ spc[p] = "write_artifact"
    /\ \E f \in FailedWrite(files[sp_name[p]]) :
          files' = [files EXCEPT ![sp_name[p]] = f]
    /\ spc' = [spc EXCEPT ![p] = "failed"]
    /\ UNCHANGED <<includes_file, ioLocals, printed, before, registered>>
    /\ UNCHANGED <<parserVars, batchVars, mainVars, convertVars>>

\* if not includes_file.exists():
UifExists(p) ==
    /\ spc[p] = "uif_exists"
    /\ spc' = [spc EXCEPT ![p] = IF MustCreate(includes_file) THEN "uif_create"
                                                              ELSE "uif_read"]
    /\ UNCHANGED <<includes_file, files, ioLocals, printed, before, registered>>
    /\ UNCHANGED <<parserVars, batchVars, mainVars, convertVars>>

\* includes_file.write_text(json.dumps({"include": []}))
UifCreate(p) ==
    /\ spc[p] = "uif_create"
    /\ includes_file' = IncludesJson(<<>>)
    /\ spc' = [spc EXCEPT ![p] = "uif_read"]
    /\ UNCHANGED <<files, ioLocals, printed, before, registered>>
    /\ UNCHANGED <<parserVars, batchVars, mainVars, convertVars>>

\* write_text raises
UifCreateFails(p) ==
    /\ spc[p] = "uif_create"
    /\ includes_file' \in FailedWrite(includes_file)
    /\ spc' = [spc EXCEPT ![p] = "failed"]
    /\ UNCHANGED <<files, ioLocals, printed, before, registered>>
    /\ UNCHANGED <<parserVars, batchVars, mainVars, convertVars>>

\* includes_data = json.load(f); raises if the file does not hold JSON
UifRead(p) ==
    /\ spc[p] = "uif_read"
    /\ IF includes_file.state = "json"
       THEN /\ includes_data' = [includes_data EXCEPT ![p] = includes_file.include]
            /\ spc' = [spc EXCEPT ![p] = "uif_update"]
       ELSE /\ spc' = [spc EXCEPT ![p] = "failed"]
            /\ UNCHANGED includes_data
    /\ UNCHANGED <<includes_file, files, sp_name, sp_preset, exit_status,
                   printed, before, registered>>
    /\ UNCHANGED <<parserVars, batchVars, mainVars, convertVars>>

\* opening or reading includes.json raises
UifReadFails(p) ==
    /\ spc[p] = "uif_read"
    /\ spc' = [spc EXCEPT ![p] = "failed"]
    /\ UNCHANGED <<includes_file, files, ioLocals, printed, before, registered>>
    /\ UNCHANGED <<parserVars, batchVars, mainVars, convertVars>>

\* the membership test, the append and the write-back, or the "already"
\* message; then update_includes_file and its caller return
UifUpdate(p) ==
    /\ spc[p] = "uif_update"
    /\ LET preset_file == FileName(sp_name[p])
       IN  /\ includes_data' =
                 [includes_data EXCEPT ![p] = UpdatedIncludes(@, preset_file)]
           /\ IF includes_data'[p] # includes_data[p]
              THEN /\ includes_file' = WrittenIncludes(includes_data'[p], includes_file)
                   /\ printed' = [printed EXCEPT ![p] = Append(@, "Added")]
              ELSE /\ printed' = [printed EXCEPT ![p] = Append(@, "Already")]
                   /\ UNCHANGED includes_file
    /\ spc' = [spc EXCEPT ![p] = "returned"]
    /\ registered' = registered \cup {sp_name[p]}
    /\ UNCHANGED <<files, sp_name, sp_preset, exit_status, before>>
    /\ UNCHANGED <<parserVars, batchVars, mainVars, convertVars>>

\* the write-back raises
UifUpdateFails(p) ==
    /\ spc[p] = "uif_update"
    /\ FileName(sp_name[p]) \notin Range(includes_data[p])
    /\ includes_file' \in FailedWrite(includes_file)
    /\ spc' = [spc EXCEPT ![p] = "failed"]
    /\ UNCHANGED <<files, ioLocals, printed, before, registered>>
    /\ UNCHANGED <<parserVars, batchVars, mainVars, convertVars>>

\* a call update_includes_file(name) by a process that is not in a call
UifCall(p, name) ==
    /\ spc[p] \in {"idle", "returned"}
    /\ spc' = [spc EXCEPT ![p] = "uif_exists"]
    /\ sp_name' = [sp_name EXCEPT ![p] = name]
    /\ printed' = [printed EXCEPT ![p] = <<>>]
    /\ UNCHANGED <<includes_file, files, sp_preset, includes_data, exit_status,
                   before, registered>>
    /\ UNCHANGED <<parserVars, batchVars, mainVars, convertVars>>

\* the parser variables of the runs that call no step of the parser
ParserIdle ==
    /\ tokens = <<>>
    /\ preset_name = <<>>
    /\ pc = "start"
    /\ parts = <<>>
    /\ i = 0
    /\ result = EmptyResult
    /\ err = NoError
    /\ build_dir_name = <<>>
    /\ install_dir_name = <<>>
    /\ inherits = <<>>
    /\ preset = NoPreset

(***************************************************************************)
(* SpecRegister: one process calls update_includes_file again and again,   *)
(* starting without includes.json; no call fails                           *)
(***************************************************************************)
InitRegister == ParserIdle /\ IoIdle /\ BatchIdle /\ MainIdle /\ ConvertIdle

NextRegister ==
    \/ \E name \in IoNames : UifCall(1, name)
    \/ UifExists(1)
    \/ UifCreate(1)
    \/ UifRead(1)
    \/ UifUpdate(1)

SpecRegister == InitRegister /\ [][NextRegister]_vars

\* s begins with t
IsPrefix(t, s) == Len(t) <= Len(s) /\ SubSeq(s, 1, Len(t)) = t

NoDuplicates(list) ==
    \A j, k \in 1..Len(list) : list[j] = list[k] => j = k

(***************************************************************************)
(* C13                                                                     *)
(***************************************************************************)
\* C13: a call of update_includes_file for a name whose "<name>.json" is
\* already in the registry leaves the registry exactly as it was and ends
\* with the "already in includes.json" message, not with an error.
C13_ReRegisterIsNoOp ==
    [][ /\ spc[1] \in {"uif_exists", "uif_read", "uif_update"}
        /\ includes_file.state = "json"
        /\ FileName(sp_name[1]) \in Range(includes_file.include)
        => /\ includes_file' = includes_file
           /\ spc'[1] \in {"uif_exists", "uif_read", "uif_update", "returned"}
           /\ spc'[1] = "returned" => printed'[1] = <<"Already">> ]_vars

C13_Witness ==
    /\ spc[1] = "returned"
    /\ printed[1] = <<"Already">>
    /\ sp_name[1] = <<"linux", "-", "gcc">>
    /\ includes_file.include =
          << <<"linux", "-", "gcc", ".json">>, <<"win", "-", "static", ".json">> >>

(***************************************************************************)
(* C14                                                                     *)
(***************************************************************************)
\* C14: through sequential update_includes_file calls starting without
\* includes.json, the registry holds no filename twice and holds
\* "<name>.json" for every name registered so far; every earlier list is a
\* prefix of every later one; the file is created with an empty list.
C14_RegistryAppendOnly ==
    /\ [](/\ NoDuplicates(includes_file.include)
          /\ \A name \in registered :
                /\ includes_file.state = "json"
                /\ FileName(name) \in Range(includes_file.include))
    /\ [][ /\ IsPrefix(includes_file.include, includes_file'.include)
           /\ includes_file.state = "absent" /\ includes_file'.state # "absent"
                 => includes_file' = IncludesJson(<<>>) /\ registered = {} ]_vars

C14_Witness ==
    /\ spc[1] = "returned"
    /\ Cardinality(registered) = 3
    /\ Len(includes_file.include) = 3
    /\ printed[1] = <<"Added">>

(***************************************************************************)
(* SpecRace: two processes run update_includes_file at the same time for   *)
(* two different names; no call fails                                      *)
(***************************************************************************)
InitRace ==
    /\ ParserIdle
    /\ BatchIdle
    /\ MainIdle
    /\ ConvertIdle
    /\ includes_file \in {AbsentFile} \cup
                         {IncludesJson(list) :
                             list \in {<<>>} \cup {<<FileName(n)>> : n \in IoNames}}
    /\ files = [n \in IoNames |-> AbsentFile]
    /\ spc = [p \in Procs |-> "uif_exists"]
    /\ sp_name \in {f \in [Procs -> IoNames] : f[1] # f[2]}
    /\ sp_preset = [p \in Procs |-> NoPreset]
    /\ includes_data = [p \in Procs |-> <<>>]
    /\ printed = [p \in Procs |-> <<>>]
    /\ exit_status = [p \in Procs |-> 0]
    /\ before = [includes_file |-> includes_file, files |-> files]
    /\ registered = {}

NextRace ==
    \E p \in Procs :
        \/ UifExists(p)
        \/ UifCreate(p)
        \/ UifRead(p)
        \/ UifUpdate(p)

SpecRace == InitRace /\ [][NextRace]_vars

(***************************************************************************)
(* C17                                                                     *)
(***************************************************************************)
BothReturned == \A p \in Procs : spc[p] = "returned"

InRegistry(name) == FileName(name) \in Range(includes_file.include)

\* C17: nothing serializes the read-modify-write of two concurrent
\* update_includes_file calls: when both have returned, the registry is the
\* local copy of one of them, never a merge, and if each read before the
\* other wrote it holds exactly one of the two filenames (a lost update);
\* such an interleaving exists (C17_Witness).
C17_LostUpdate ==
    BothReturned =>
        /\ \E p \in Procs : includes_file = IncludesJson(includes_data[p])
        /\ \A p \in Procs : FileName(sp_name[p]) \in Range(includes_data[p])
        /\ (\A p, q \in Procs :
               p # q => FileName(sp_name[q]) \notin Range(includes_data[p]))
              => \E p, q \in Procs :
                    /\ p # q
                    /\ InRegistry(sp_name[p])
                    /\ ~InRegistry(sp_name[q])

C17_Witness ==
    /\ BothReturned
    /\ registered = {sp_name[1], sp_name[2]}
    /\ printed = [p \in Procs |-> <<"Added">>]
    /\ InRegistry(sp_name[2])
    /\ ~InRegistry(sp_name[1])
    /\ before.includes_file.state = "json"

(***************************************************************************)
(* SpecSingle: one process runs single_preset(name) once; every statement  *)
(* that writes or reads a file may raise                                   *)
(***************************************************************************)
\* the names of IoNames that parse_preset_name accepts
ValidIoNames == {n \in IoNames : parse_preset_name(n).err = NoError}

\* the artifact an earlier run for the name has left, if it left one
EarlierArtifacts(name) ==
    {AbsentFile} \cup
    (IF name \in ValidIoNames THEN {PresetJson(generate_preset(name).preset)} ELSE {})

InitSingle ==
    /\ ParserIdle
    /\ BatchIdle
    /\ MainIdle
    /\ ConvertIdle
    /\ \E name \in IoNames, other \in IoNames :
          /\ sp_name = [p \in Procs |-> IF p = 1 THEN name ELSE <<>>]
          /\ includes_file \in
                {AbsentFile, IncludesJson(<<>>), IncludesJson(<<FileName(other)>>),
                 IncludesJson(<<FileName(other), FileName(name)>>)}
          /\ \E f \in EarlierArtifacts(name) :
                files = [n \in IoNames |-> IF n = name THEN f ELSE AbsentFile]
    /\ spc = [p \in Procs |-> IF p = 1 THEN "generate" ELSE "idle"]
    /\ sp_preset = [p \in Procs |-> NoPreset]
    /\ includes_data = [p \in Procs |-> <<>>]
    /\ printed = [p \in Procs |-> <<>>]
    /\ exit_status = [p \in Procs |-> 0]
    /\ before = [includes_file |-> includes_file, files |-> files]
    /\ registered = {}

NextSingle ==
    \/ SPGenerate(1)
    \/ SPWriteArtifact(1)
    \/ SPWriteArtifactFails(1)
    \/ UifExists(1)
    \/ UifCreate(1)
    \/ UifCreateFails(1)
    \/ UifRead(1)
    \/ UifReadFails(1)
    \/ UifUpdate(1)
    \/ UifUpdateFails(1)

SpecSingle == InitSingle /\ [][NextSingle]_vars

\* single_preset has ended: by return, by sys.exit, or by an exception
Ended(p) == spc[p] \in {"returned", "exit", "failed"}

(***************************************************************************)
(* C15                                                                     *)
(***************************************************************************)
\* C15: in every terminal state of a single-preset run, also after an I/O
\* failure, either the artifact <name>.json has been written and the
\* registry contains it, or neither the artifact nor the registry has been
\* changed.
C15_AllOrNothing ==
    Ended(1) =>
        \/ /\ files[sp_name[1]].state = "json"
           /\ includes_file.state = "json"
           /\ InRegistry(sp_name[1])
        \/ /\ files = before.files
           /\ includes_file = before.includes_file

(***************************************************************************)
(* C16                                                                     *)
(***************************************************************************)
\* the names of IoNames that are no valid preset names: static paired with
\* python, and a token of no category
RejectedIoNames ==
    { <<"linux", "-", "static", "-", "python">>, <<"linux", "-", "foo">> }

\* C16: for a name that fails parsing or validation the run prints the
\* diagnostic and exits with status 1, and no artifact and no registry is
\* created or modified.
C16_ParseFailureExits ==
    sp_name[1] \in RejectedIoNames =>
        /\ files = before.files
        /\ includes_file = before.includes_file
        /\ spc[1] \in {"generate", "exit"}
        /\ spc[1] = "exit" =>
              /\ exit_status[1] = 1
              /\ printed[1] = <<"Error", "ValidFormatExamples">>

C16_Witness ==
    /\ spc[1] = "exit"
    /\ exit_status[1] = 1
    /\ sp_name[1] = <<"linux", "-", "static", "-", "python">>
    /\ before.includes_file = AbsentFile
    /\ includes_file = AbsentFile

(***************************************************************************)
(* generate_all_presets, one action per pass through the loop body.  The   *)
(* call of single_preset is taken by its outcome: it returns, or it raises *)
(* what generate_preset or a file operation raises; its effect on the      *)
(* files is that of SpecSingle.                                            *)
(***************************************************************************)
\* largest of the small limits tried
MaxLimit == 3

\* the tuple the loop body runs on
Candidate == Combinations[platform_idx][combo]

\* the skip test that looks at python only when the library is shared
IsStaticPython_Shared(cand) ==
    cand[Len(cand) - 3] = "shared" /\ cand[Len(cand)] = "python"

\* lib == "static" and python == "python"
IsStaticPython(cand) ==
    cand[Len(cand) - 3] = "static" /\ cand[Len(cand)] = "python"

\* the name built with the python entry appended even when it is empty and
\* without the filter
CandidateName_KeepEmpty(plat, cand) ==
    Join(<<plat>> \o cand)

\* "-".join(filter(None, preset_parts))
CandidateName(plat, cand) ==
    LET base == <<plat>> \o SubSeq(cand, 1, Len(cand) - 1)
        python == cand[Len(cand)]
        preset_parts == IF python # "" THEN Append(base, python) ELSE base
    IN  Join(SelectSeq(preset_parts, LAMBDA t : t # ""))

\* the names the loops build, and whether generate_preset exits on each
EnumeratedNames ==
    {CandidateName(platforms[k], Combinations[k][c]) :
        <<k, c>> \in {<<j, b>> \in (1..2) \X (1..128) :
                         /\ b <= Len(Combinations[j])
                         /\ ~IsStaticPython(Combinations[j][b])}}

GeneratePresetExits == [name \in EnumeratedNames |-> generate_preset(name).exit]

\* what single_preset(name) can raise: SystemExit from generate_preset, or
\* the OSError or JSONDecodeError of a file operation
RaisedBySinglePreset(name) ==
    IF GeneratePresetExits[name] THEN {"SystemExit"}
    ELSE {"OSError", "JSONDecodeError"}

\* a handler "except ValueError"
ExceptException_ValueErrorOnly(raised) == raised = "JSONDecodeError"

\* "except Exception" catches OSError and JSONDecodeError, not SystemExit
ExceptException(raised) == raised \in {"OSError", "JSONDecodeError"}

\* "limit and total_presets > limit"
LimitExceeded(lim, total) == Truthy(lim) /\ total > lim.n

\* a loop body that calls single_preset whatever dry_run is
RunsSinglePreset_Always(dry) == TRUE

\* "if not dry_run"
RunsSinglePreset(dry) == ~dry

\* the files a call of single_preset may have opened for writing when it
\* ends with the given outcome: the artifact <name>.json, then includes.json
\* when update_includes_file creates it or appends to it
WrittenBySinglePreset(outcome) ==
    CASE outcome = "returned" -> {{"artifact"}, {"artifact", "includes"}}
      [] outcome = "OSError" -> {{}, {"artifact"}, {"artifact", "includes"}}
      [] outcome = "JSONDecodeError" -> {{"artifact"}}
      [] outcome = "SystemExit" -> {{}}

batchArgs == <<limit, dry_run>>

InLoopBody ==
    /\ bpc = "loop"
    /\ combo <= Len(Combinations[platform_idx])

\* the static/python test of an iteration: count the skip and continue
BatchSkip ==
    /\ InLoopBody
    /\ IsStaticPython(Candidate)
    /\ skipped_presets' = skipped_presets + 1
    /\ combo' = combo + 1
    /\ UNCHANGED <<batchArgs, platform_idx, bpc, total_presets, successful_presets,
                   announced, calls, caught, written>>
    /\ UNCHANGED <<parserVars, ioVars, mainVars, convertVars>>

\* total_presets += 1 and the limit test sends the loop to its break
BatchBreak ==
    /\ InLoopBody
    /\ ~IsStaticPython(Candidate)
    /\ total_presets' = total_presets + 1
    /\ LimitExceeded(limit, total_presets')
    /\ bpc' = "after_loop"
    /\ UNCHANGED <<batchArgs, platform_idx, combo, successful_presets, skipped_presets,
                   announced, calls, caught, written>>
    /\ UNCHANGED <<parserVars, ioVars, mainVars, convertVars>>

\* an iteration that passes the limit test: total_presets += 1, the
\* announcement, and what all outcomes of the iteration share
Announce ==
    /\ InLoopBody
    /\ ~IsStaticPython(Candidate)
    /\ total_presets' = total_presets + 1
    /\ ~LimitExceeded(limit, total_presets')
    /\ announced' = [announced EXCEPT ![platform_idx] = @ + 1]
    /\ UNCHANGED <<batchArgs, platform_idx, skipped_presets>>
    /\ UNCHANGED <<parserVars, ioVars, mainVars, convertVars>>

\* a dry run: the announcement only
BatchDryRun ==
    /\ Announce
    /\ ~RunsSinglePreset(dry_run)
    /\ combo' = combo + 1
    /\ UNCHANGED <<bpc, successful_presets, calls, caught, written>>

\* single_preset(preset_name) returns: successful_presets += 1
BatchAttempt ==
    /\ Announce
    /\ RunsSinglePreset(dry_run)
    /\ ~GeneratePresetExits[CandidateName(platforms[platform_idx], Candidate)]
    /\ calls' = calls + 1
    /\ \E w \in WrittenBySinglePreset("returned") : written' = written \cup w
    /\ successful_presets' = successful_presets + 1
    /\ combo' = combo + 1
    /\ UNCHANGED <<bpc, caught>>

\* single_preset(preset_name) raises: the handler prints the error and the
\* loop goes on, or the exception leaves generate_all_presets
BatchAttemptRaises ==
    /\ Announce
    /\ RunsSinglePreset(dry_run)
    /\ calls' = calls + 1
    /\ \E raised \in RaisedBySinglePreset(CandidateName(platforms[platform_idx], Candidate)) :
          /\ \E w \in WrittenBySinglePreset(raised) : written' = written \cup w
          /\ IF ExceptException(raised)
             THEN /\ caught' = caught + 1
                  /\ combo' = combo + 1
                  /\ UNCHANGED bpc
             ELSE /\ bpc' = "raised"
                  /\ UNCHANGED <<caught, combo>>
    /\ UNCHANGED successful_presets

\* the inner loop has run over all its tuples
BatchLoopEnd ==
    /\ bpc = "loop"
    /\ combo > Len(Combinations[platform_idx])
    /\ bpc' = "after_loop"
    /\ UNCHANGED <<batchArgs, platform_idx, combo, total_presets, successful_presets,
                   skipped_presets, announced, calls, caught, written>>
    /\ UNCHANGED <<parserVars, ioVars, mainVars, convertVars>>

\* "if limit and total_presets >= limit: break", else the next platform;
\* after the last platform the summary is printed
BatchAfterLoop ==
    /\ bpc = "after_loop"
    /\ IF (Truthy(limit) /\ total_presets >= limit.n) \/ platform_idx = Len(platforms)
       THEN bpc' = "done" /\ UNCHANGED <<platform_idx, combo>>
       ELSE bpc' = "loop" /\ platform_idx' = platform_idx + 1 /\ combo' = 1
    /\ UNCHANGED <<batchArgs, total_presets, successful_presets,
                   skipped_presets, announced, calls, caught, written>>
    /\ UNCHANGED <<parserVars, ioVars, mainVars, convertVars>>

\* the combinations of a platform that are not skipped
NumAttemptable(k) ==
    Len(SelectSeq(Combinations[k], LAMBDA cand : ~IsStaticPython(cand)))

\* the limits tried: None, the small ones from 0 on, and the two around the
\* number of linux combinations
Limits ==
    {NoLimit} \cup {IntLimit(n) : n \in 0..MaxLimit}
              \cup {IntLimit(NumAttemptable(1)), IntLimit(NumAttemptable(1) + 1)}

InitBatch ==
    /\ ParserIdle
    /\ IoIdle
    /\ MainIdle
    /\ ConvertIdle
    /\ limit \in Limits
    /\ dry_run \in BOOLEAN
    /\ platform_idx = 1
    /\ combo = 1
    /\ bpc = "loop"
    /\ total_presets = 0
    /\ successful_presets = 0
    /\ skipped_presets = 0
    /\ announced = [k \in 1..2 |-> 0]
    /\ calls = 0
    /\ caught = 0
    /\ written = {}

NextBatch ==
    \/ BatchSkip
    \/ BatchBreak
    \/ BatchDryRun
    \/ BatchAttempt
    \/ BatchAttemptRaises
    \/ BatchLoopEnd
    \/ BatchAfterLoop

SpecBatch == InitBatch /\ [][NextBatch]_vars

AnnouncedTotal == announced[1] + announced[2]

PairsStaticWithPython(cand) == "static" \in Range(cand) /\ "python" \in Range(cand)

(***************************************************************************)
(* C18                                                                     *)
(***************************************************************************)
\* C18: for every integer limit N the combinations attempted (announced and,
\* unless dry-run, passed to single_preset) are at most N over both
\* platforms, and once N is reached during the linux enumeration no win
\* combination is attempted.
C18_LimitBoundsAttempts ==
    limit.given =>
        /\ AnnouncedTotal <= limit.n
        /\ calls <= limit.n
        /\ announced[1] >= limit.n => announced[2] = 0

(***************************************************************************)
(* C19                                                                     *)
(***************************************************************************)
\* the combinations of the cross-product of platform k pairing static with
\* python
StaticPythonCombinations(k) ==
    LET sets == (IF k = 1 THEN {Range(compilers)} ELSE {{"none"}})
    IN  {c \in (UNION sets) \X Range(threading) \X Range(int_size) \X Range(lib_type)
                 \X Range(build_type) \X Range(arch) \X Range(build_python) :
            c[4] = "static" /\ c[7] = "python"}

\* C19: a combination pairing static with python is never announced nor
\* passed to single_preset; it only increments the skip counter, without an
\* error and without being counted as attempted; a run without limit ends
\* with skipped = 32 + 16, the number of such combinations.
C19_StaticPythonSkipped ==
    /\ [][ /\ (announced' # announced \/ calls' # calls \/ total_presets' # total_presets)
              => ~PairsStaticWithPython(Candidate)
           /\ skipped_presets' # skipped_presets
              => /\ PairsStaticWithPython(Candidate)
                 /\ skipped_presets' = skipped_presets + 1
                 /\ UNCHANGED <<total_presets, successful_presets, announced,
                                calls, caught, bpc>> ]_vars
    /\ [](bpc # "raised")
    /\ [](bpc = "done" /\ ~limit.given =>
             /\ skipped_presets = 32 + 16
             /\ Cardinality(StaticPythonCombinations(1)) = 32
             /\ Cardinality(StaticPythonCombinations(2)) = 16)

C19_Witness ==
    /\ bpc = "done"
    /\ ~limit.given
    /\ ~dry_run
    /\ skipped_presets = 48
    /\ successful_presets = 96 + 48

C21_TotalsAgree ==
    bpc = "done" =>
        /\ total_presets = AnnouncedTotal
        /\ ~dry_run => total_presets = successful_presets + caught
        /\ successful_presets <= total_presets

(***************************************************************************)
(* C22                                                                     *)
(***************************************************************************)
\* the number of tuples of platform k before position c that satisfy (or
\* not) the static/python test, with all the tuples of the platforms
\* before k
TuplesBefore ==
    [k \in 1..2, c \in 1..129, skippedOnes \in BOOLEAN |->
        Cardinality({<<j, b>> \in (1..k) \X (1..128) :
                        /\ b <= Len(Combinations[j])
                        /\ j = k => b < c
                        /\ IsStaticPython(Combinations[j][b]) = skippedOnes})]

\* the number of combinations a run with the given limit attempts
ExpectedAttempts(lim) ==
    LET n1 == NumAttemptable(1)
        n2 == NumAttemptable(2)
    IN  IF ~Truthy(lim) THEN n1 + n2
        ELSE IF lim.n <= n1 THEN lim.n
        ELSE IF lim.n - n1 <= n2 THEN lim.n
        ELSE n1 + n2

\* C22: a dry run enumerates and counts the same combinations as a non-dry
\* run with the same limit (the counters are determined by the position in
\* the enumeration and the final number of attempts by the limit, whatever
\* dry_run is), but never calls single_preset: no artifact file is written,
\* the includes registry is unchanged, and the successful count stays 0.
C22_DryRunNoSideEffects ==
    /\ bpc # "raised"
    /\ skipped_presets = TuplesBefore[platform_idx, combo, TRUE]
    /\ AnnouncedTotal = TuplesBefore[platform_idx, combo, FALSE]
    /\ total_presets = AnnouncedTotal + (IF LimitExceeded(limit, total_presets) THEN 1 ELSE 0)
    /\ bpc = "done" => AnnouncedTotal = ExpectedAttempts(limit)
    /\ dry_run =>
          /\ calls = 0
          /\ written = {}
          /\ successful_presets = 0
          /\ caught = 0

C22_Witness ==
    /\ bpc = "done"
    /\ dry_run
    /\ limit = IntLimit(NumAttemptable(1) + 1)
    /\ announced = <<96, 1>>
    /\ skipped_presets = 33
    /\ total_presets = 98

\* a non-dry run with the same limit ends with the same counts, having
\* written files
C22_NonDryCounterpart ==
    /\ bpc = "done"
    /\ ~dry_run
    /\ limit = IntLimit(NumAttemptable(1) + 1)
    /\ announced = <<96, 1>>
    /\ skipped_presets = 33
    /\ total_presets = 98
    /\ written = {"artifact", "includes"}

(***************************************************************************)
(* main: the dispatch on the parsed command line.  The batch driver and    *)
(* the single-preset path it hands over to are the actions above.          *)
(***************************************************************************)
\* the dispatch that looks at the positional name first
Dispatch_NameFirst(a) ==
    IF NameTruthy(a.preset_name) THEN "single_preset"
    ELSE IF a.generate_all THEN "generate_all_presets"
    ELSE "print_available_options"

\* if args.generate_all: ... elif args.preset_name: ... else: ...
Dispatch(a) ==
    IF a.generate_all THEN "generate_all_presets"
    ELSE IF NameTruthy(a.preset_name) THEN "single_preset"
    ELSE "print_available_options"

\* the banner main prints before it dispatches
Banner == "CMake Preset Generator for AOCL-Data Analytics (AOCL-DA)"

\* generate_all_presets(args.dry_run, args.limit)
MainGenerateAll ==
    /\ mpc = "main"
    /\ Dispatch(args) = "generate_all_presets"
    /\ mpc' = "generate_all_presets"
    /\ main_printed' = Append(main_printed, Banner)
    /\ limit' = args.limit
    /\ dry_run' = args.dry_run
    /\ bpc' = "loop"
    /\ UNCHANGED <<platform_idx, combo, total_presets, successful_presets,
                   skipped_presets, announced, calls, caught, written>>
    /\ UNCHANGED <<args, main_exit>>
    /\ UNCHANGED <<parserVars, ioVars, convertVars>>

\* single_preset(args.preset_name)
MainSinglePreset ==
    /\ mpc = "main"
    /\ Dispatch(args) = "single_preset"
    /\ mpc' = "single_preset"
    /\ main_printed' = Append(main_printed, Banner)
    /\ spc' = [spc EXCEPT ![1] = "generate"]
    /\ sp_name' = [sp_name EXCEPT ![1] = args.preset_name.s]
    /\ UNCHANGED <<includes_file, files, sp_preset, includes_data, printed,
                   exit_status, before, registered>>
    /\ UNCHANGED <<args, main_exit>>
    /\ UNCHANGED <<parserVars, batchVars, convertVars>>

\* print_available_options(); sys.exit(1)
MainUsage ==
    /\ mpc = "main"
    /\ Dispatch(args) = "print_available_options"
    /\ mpc' = "exit"
    /\ main_printed' = main_printed \o <<Banner, "Available preset options:">>
    /\ main_exit' = 1
    /\ UNCHANGED args
    /\ UNCHANGED <<parserVars, ioVars, batchVars, convertVars>>

\* the positional names tried: absent, empty, one that parses, one that
\* does not
MainNames ==
    {NoName, NameArg(<<>>), NameArg(Join(<<"linux", "gcc">>)),
     NameArg(Join(<<"linux", "foo">>))}

\* the command lines tried
MainArgs ==
    [generate_all : BOOLEAN, preset_name : MainNames, dry_run : BOOLEAN,
     limit : {NoLimit} \cup {IntLimit(n) : n \in 1..MaxLimit}]

InitMain ==
    /\ ParserIdle
    /\ IoIdle
    /\ BatchIdle
    /\ ConvertIdle
    /\ args \in MainArgs
    /\ mpc = "main"
    /\ main_printed = <<>>
    /\ main_exit = 0

NextMain ==
    \/ MainGenerateAll
    \/ MainSinglePreset
    \/ MainUsage
    \/ BatchSkip
    \/ BatchBreak
    \/ BatchDryRun
    \/ BatchAttempt
    \/ BatchAttemptRaises
    \/ BatchLoopEnd
    \/ BatchAfterLoop
    \/ SPGenerate(1)
    \/ SPWriteArtifact(1)
    \/ SPWriteArtifactFails(1)
    \/ UifExists(1)
    \/ UifCreate(1)
    \/ UifCreateFails(1)
    \/ UifRead(1)
    \/ UifReadFails(1)
    \/ UifUpdate(1)
    \/ UifUpdateFails(1)

SpecMain == InitMain /\ [][NextMain]_vars

(***************************************************************************)
(* C23                                                                     *)
(***************************************************************************)
\* C23: with --generate-all the batch driver runs and a positional name
\* given alongside is ignored; otherwise a non-empty name runs the
\* single-preset path; with neither, the option catalog is printed, the
\* process exits with status 1 and no file is written.
C23_MainDispatch ==
    /\ [][ mpc = "main" =>
             mpc' = IF args.generate_all THEN "generate_all_presets"
                    ELSE IF args.preset_name.given /\ args.preset_name.s # <<>>
                         THEN "single_preset"
                    ELSE "exit" ]_vars
    /\ [](mpc = "generate_all_presets" =>
             /\ bpc # "idle"
             /\ limit = args.limit
             /\ dry_run = args.dry_run
             /\ spc[1] = "idle"
             /\ sp_name[1] = <<>>
             /\ main_exit = 0)
    /\ [](mpc = "single_preset" =>
             /\ spc[1] # "idle"
             /\ sp_name[1] = args.preset_name.s
             /\ bpc = "idle"
             /\ main_exit = 0)
    /\ [](mpc = "exit" =>
             /\ ~args.generate_all
             /\ args.preset_name \in {NoName, NameArg(<<>>)}
             /\ main_printed = <<Banner, "Available preset options:">>
             /\ main_exit = 1
             /\ spc[1] = "idle"
             /\ bpc = "idle"
             /\ files = before.files
             /\ includes_file = before.includes_file
             /\ written = {})

\* --generate-all with a positional name: the batch ran to its end and the
\* single-preset path never started
C23_Witness ==
    /\ mpc = "generate_all_presets"
    /\ args.preset_name = NameArg(Join(<<"linux", "gcc">>))
    /\ bpc = "done"
    /\ successful_presets > 0
    /\ spc[1] = "idle"

\* the empty name without --generate-all ends in the catalog and status 1
C23_UsageReached ==
    /\ mpc = "exit"
    /\ args.preset_name = NameArg(<<>>)
    /\ main_exit = 1

\* a name without --generate-all: the single-preset path registered it
C23_SingleReached ==
    /\ mpc = "single_preset"
    /\ spc[1] = "returned"
    /\ InRegistry(args.preset_name.s)

(***************************************************************************)
(* C24                                                                     *)
(***************************************************************************)
\* C24: the platform token is the required first element: every name whose
\* first hyphen-separated token is not linux or win is rejected, so a name
\* parse_preset_name accepts begins with a platform token.
C24_PlatformFirst ==
    Returned => /\ Len(parts) >= 1
                /\ parts[1] \in OptionsOf("platform")

(***************************************************************************)
(* check_convert_data(X, dtype, force_float)                               *)
(***************************************************************************)
\* the element types of the arrays tried
ElemTypes ==
    {"float16", "float32", "float64", "int16", "int32", "int64", "object", "bool"}

\* the test that takes the integer names whatever force_float is
ValidDtype_IntUnderForce(force, dt) ==
    dt \in {Str("float32"), Str("float64"), Str("int32"), Str("int64")}

\* force_float and dtype in ['float32', 'float64'], or
\* not force_float and dtype in ['float32', 'float64', 'int32', 'int64']
ValidDtype(force, dt) ==
    \/ force /\ dt \in {Str("float32"), Str("float64")}
    \/ ~force /\ dt \in {Str("float32"), Str("float64"), Str("int32"), Str("int64")}

\* allowed_dtypes that holds the float types whatever force_float is
AllowedDtypes_FloatOnly(force) == {"float32", "float64"}

\* allowed_dtypes: [np.float32, np.float64], with np.int32 and np.int64
\* when force_float is false
AllowedDtypes(force) ==
    IF force THEN {"float32", "float64"}
    ELSE {"float32", "float64", "int32", "int64"}

\* X.astype(dtype=dtype), np.asarray(X, dtype=dtype): an ndarray of dtype
AsType(x, dt) == [kind |-> "ndarray", elem |-> dt[2]]

\* the element types whose values NumPy may fail to cast to a number
MayFailToCast == {"object"}

UnsupportedWarning ==
    "UserWarning: Input had an unsupported data type and has been cast"

\* the dtype test at the head of the function; np.dtype(dtype)
CcdCheckDtype ==
    /\ cpc = "check_dtype"
    /\ IF ValidDtype(force_float, dtype)
       THEN /\ allowed_dtypes' = AllowedDtypes(force_float)
            /\ dtype' = NpDtype(dtype[2])
            /\ cpc' = "isinstance"
            /\ UNCHANGED raised_error
       ELSE /\ raised_error' = "ValueError"
            /\ cpc' = "raised"
            /\ UNCHANGED <<allowed_dtypes, dtype>>
    /\ UNCHANGED <<X, force_float, warned, x_read>>
    /\ UNCHANGED <<parserVars, ioVars, batchVars, mainVars>>

\* isinstance(X, np.ndarray): cast with a warning when X.dtype is not
\* allowed, and return X
CcdNdarray ==
    /\ cpc = "isinstance"
    /\ X.kind = "ndarray"
    /\ x_read' = TRUE
    /\ IF X.elem \notin allowed_dtypes
       THEN /\ X' = AsType(X, dtype)
            /\ warned' = Append(warned, UnsupportedWarning)
       ELSE UNCHANGED <<X, warned>>
    /\ cpc' = "returned"
    /\ UNCHANGED <<dtype, force_float, allowed_dtypes, raised_error>>
    /\ UNCHANGED <<parserVars, ioVars, batchVars, mainVars>>

\* X.astype raises: a value of the array cannot be cast to dtype
CcdNdarrayCastFails ==
    /\ cpc = "isinstance"
    /\ X.kind = "ndarray"
    /\ X.elem \notin allowed_dtypes
    /\ X.elem \in MayFailToCast
    /\ x_read' = TRUE
    /\ raised_error' = "ValueError"
    /\ cpc' = "raised"
    /\ UNCHANGED <<X, dtype, force_float, allowed_dtypes, warned>>
    /\ UNCHANGED <<parserVars, ioVars, batchVars, mainVars>>

\* the try block for an input that is no ndarray: np.asarray with the type
\* of X[0] when X[0] has an allowed dtype, else with dtype and a warning
CcdAsArray ==
    /\ cpc = "isinstance"
    /\ X.kind \in {"list_of_numpy", "list_of_python", "empty_list"}
    /\ x_read' = TRUE
    /\ IF X.kind = "list_of_numpy" /\ X.elem \in allowed_dtypes
       THEN /\ X' = AsType(X, NpDtype(X.elem))
            /\ UNCHANGED warned
       ELSE /\ X' = AsType(X, dtype)
            /\ warned' = Append(warned, UnsupportedWarning)
    /\ cpc' = "returned"
    /\ UNCHANGED <<dtype, force_float, allowed_dtypes, raised_error>>
    /\ UNCHANGED <<parserVars, ioVars, batchVars, mainVars>>

\* the try block raises: ValueError from np.asarray for rows of unequal
\* length, TypeError from len() of an object without length; an
\* AttributeError is turned into ValueError by the handler
CcdAsArrayRaises ==
    /\ cpc = "isinstance"
    /\ X.kind \in {"ragged_list", "no_len", "raises_AttributeError"}
    /\ x_read' = TRUE
    /\ raised_error' = (IF X.kind = "no_len" THEN "TypeError" ELSE "ValueError")
    /\ cpc' = "raised"
    /\ UNCHANGED <<X, dtype, force_float, allowed_dtypes, warned>>
    /\ UNCHANGED <<parserVars, ioVars, batchVars, mainVars>>

\* the inputs tried for X
ArrayInputs ==
    [kind : {"ndarray", "list_of_numpy"}, elem : ElemTypes]
    \cup [kind : {"list_of_python", "empty_list", "ragged_list", "no_len",
                  "raises_AttributeError"}, elem : {"none"}]

\* the values tried for dtype: the six of the type names, two other
\* strings, and values that are no strings
DtypeInputs ==
    {Str(n) : n \in {"float16", "float32", "float64", "int16", "int32", "int64", "a", "1"}}
    \cup {PyInt("1"), PyBool("True")}

InitConvert ==
    /\ ParserIdle
    /\ IoIdle
    /\ BatchIdle
    /\ MainIdle
    /\ X \in ArrayInputs
    /\ dtype \in DtypeInputs
    /\ force_float \in BOOLEAN
    /\ allowed_dtypes = {}
    /\ cpc = "check_dtype"
    /\ warned = <<>>
    /\ raised_error = "none"
    /\ x_read = FALSE

NextConvert ==
    \/ CcdCheckDtype
    \/ CcdNdarray
    \/ CcdNdarrayCastFails
    \/ CcdAsArray
    \/ CcdAsArrayRaises

SpecConvert == InitConvert /\ [][NextConvert]_vars

(***************************************************************************)
(* C25                                                                     *)
(***************************************************************************)
\* C25: check_convert_data raises ValueError, before looking at the data,
\* whenever dtype is not 'float32' or 'float64' with force_float=True, or
\* not one of 'float32', 'float64', 'int32', 'int64' with force_float=False;
\* this includes 'int32' and 'int64' under force_float=True and values that
\* are no strings, such as 1 or True.
C25_InvalidDtypeRaises ==
    [][ /\ cpc = "check_dtype"
        /\ \/ force_float /\ dtype \notin {<<"str", "float32">>, <<"str", "float64">>}
           \/ ~force_float /\ dtype \notin {<<"str", "float32">>, <<"str", "float64">>,
                                             <<"str", "int32">>, <<"str", "int64">>}
        => /\ cpc' = "raised"
           /\ raised_error' = "ValueError"
           /\ ~x_read'
           /\ X' = X
           /\ warned' = <<>> ]_vars

C25_Witness ==
    /\ cpc = "raised"
    /\ raised_error = "ValueError"
    /\ force_float
    /\ dtype = Str("int64")
    /\ X = [kind |-> "ndarray", elem |-> "int64"]
    /\ ~x_read

\* a value that is no string is rejected under force_float=False as well
C25_NonStringRejected ==
    /\ cpc = "raised"
    /\ ~force_float
    /\ dtype = PyBool("True")
    /\ ~x_read

(***************************************************************************)
(* C26                                                                     *)
(***************************************************************************)
\* the allowed set of the mode
ModeAllowed ==
    IF force_float THEN {"float32", "float64"}
    ELSE {"float32", "float64", "int32", "int64"}

\* C26: for an ndarray input and a valid dtype, the returned array has the
\* input's own element type, with no warning, when that type is in the
\* allowed set of the mode, and otherwise has exactly the requested dtype
\* with a UserWarning emitted; hence the returned element type is always in
\* the allowed set of the mode.
C26_NdarrayResultType ==
    [][ cpc = "isinstance" /\ X.kind = "ndarray" /\ cpc' = "returned"
        => /\ IF X.elem \in ModeAllowed
              THEN X' = X /\ warned' = <<>>
              ELSE /\ X'.kind = "ndarray"
                   /\ X'.elem = dtype[2]
                   /\ warned' = <<UnsupportedWarning>>
           /\ X'.elem \in ModeAllowed
           /\ dtype[2] \in ModeAllowed ]_vars

\* an int32 array under force_float=False comes back as it is
C26_Witness ==
    /\ cpc = "returned"
    /\ ~force_float
    /\ dtype = NpDtype("float64")
    /\ X = [kind |-> "ndarray", elem |-> "int32"]
    /\ warned = <<>>

\* an array that was cast: int64 requested under force_float=False
C26_CastReached ==
    /\ cpc = "returned"
    /\ ~force_float
    /\ dtype = NpDtype("int64")
    /\ X = [kind |-> "ndarray", elem |-> "int64"]
    /\ warned = <<UnsupportedWarning>>

(***************************************************************************)
(* C27                                                                     *)
(***************************************************************************)
\* C27: errors come in a fixed precedence: the tokens are checked left to
\* right and the first offending token decides the error (UnrecognizedToken
\* or DuplicateCategory, naming that token); the platform/compiler check
\* and then the static/python check run only when every token was
\* accepted, so "win-gcc-static-python" fails with
\* IncompatiblePlatformCompiler and "win-gcc-foo" with UnrecognizedToken.
C27_ErrorPrecedence ==
    pc \in {"raised", "returned"} =>
        IF \E k \in 1..Len(tokens) : Offending(tokens, k)
        THEN LET k == CHOOSE j \in 1..Len(tokens) : FirstOffending(tokens, j)
             IN  /\ pc = "raised"
                 /\ err.part = tokens[k]
                 /\ err.kind = IF Legal(tokens[k]) THEN "DuplicateCategory"
                                                   ELSE "UnrecognizedToken"
        ELSE IF HasWinAndCompiler(tokens) THEN Raised("IncompatiblePlatformCompiler")
        ELSE IF HasStaticAndPython(tokens) THEN Raised("StaticPythonConflict")
        ELSE Returned

C27_Witness ==
    /\ tokens = <<"win", "gcc", "static", "python">>
    /\ Raised("IncompatiblePlatformCompiler")

\* the unknown token after win and a compiler decides the error
C27_UnknownAfterWinCompiler ==
    /\ tokens = <<"win", "gcc", "foo">>
    /\ Raised("UnrecognizedToken")
    /\ err.part = "foo"

(***************************************************************************)
(* C28                                                                     *)
(***************************************************************************)
\* the list ts with the tokens at positions a and b exchanged
Exchanged(ts, a, b) ==
    [k \in 1..Len(ts) |-> IF k = a THEN ts[b] ELSE IF k = b THEN ts[a] ELSE ts[k]]

StanzasOfType(doc, type) ==
    IF type = <<"configure">> THEN doc.configurePresets
    ELSE IF type = <<"build">> THEN doc.buildPresets
    ELSE IF type = <<"test">> THEN doc.testPresets
    ELSE <<>>

\* C29: every document generate_preset builds is referentially closed: each
\* workflow step of type configure, build or test names a stanza that
\* exists in configurePresets, buildPresets or testPresets respectively, and
\* the configurePreset field of every build and test stanza is the name of
\* the single configure stanza.
C29_ReferentiallyClosed ==
    pc = "preset" =>
        /\ Len(preset.configurePresets) = 1
        /\ \A w \in 1..Len(preset.workflowPresets) :
              \A k \in 1..Len(preset.workflowPresets[w].steps) :
                 LET step == preset.workflowPresets[w].steps[k]
                     stanzas == StanzasOfType(preset, step["type"])
                 IN  \E n \in 1..Len(stanzas) : stanzas[n].name = step["name"]
        /\ \A n \in 1..Len(preset.buildPresets) :
              preset.buildPresets[n].configurePreset = preset.configurePresets[1].name
        /\ \A n \in 1..Len(preset.testPresets) :
              preset.testPresets[n].configurePreset = preset.configurePresets[1].name

C29_Witness ==
    /\ pc = "preset"
    /\ preset_name = <<"win", "-", "static">>
    /\ preset.workflowPresets[1].steps[2]["name"] = preset.buildPresets[2].name
    /\ preset.buildPresets[2].configurePreset = <<"win", "-", "static">>

(***************************************************************************)
(* C30                                                                     *)
(***************************************************************************)
\* parse_preset_name on every name the loops build
ParsedEnumerated == [name \in EnumeratedNames |-> parse_preset_name(name)]

\* the configuration holding exactly the tokens of a combination: the
\* compiler only on linux, the generator msvc on win and unset on linux
ConfigurationOf(plat, cand) ==
    LET n == Len(cand)
        given == [c \in {"platform", "compiler", "threading", "int_size", "lib_type",
                         "build_type", "arch", "build_python", "generator"} |->
                    CASE c = "platform" -> plat
                      [] c = "compiler" -> IF plat = "linux" THEN cand[1] ELSE Empty
                      [] c = "threading" -> cand[n - 5]
                      [] c = "int_size" -> cand[n - 4]
                      [] c = "lib_type" -> cand[n - 3]
                      [] c = "build_type" -> cand[n - 2]
                      [] c = "arch" -> cand[n - 1]
                      [] c = "build_python" -> IF cand[n] = "" THEN Empty ELSE cand[n]
                      [] c = "generator" -> IF plat = "win" THEN "msvc" ELSE Empty]
    IN  [c \in Categories |-> IF c \in DOMAIN given THEN given[c] ELSE Empty]

\* C30: every name generate_all_presets enumerates is accepted by
\* parse_preset_name and resolves to exactly the tokens of its combination
\* (compiler unset and generator msvc for win, generator unset for linux);
\* the enumerated names are pairwise distinct; so, absent I/O failures, a
\* non-dry run ends with successful equal to the number of combinations
\* attempted.
C30_EnumeratedNamesParse ==
    /\ bpc # "raised"
    /\ Cardinality(EnumeratedNames) = NumAttemptable(1) + NumAttemptable(2)
    /\ InLoopBody /\ ~IsStaticPython(Candidate) =>
          LET plat == platforms[platform_idx]
              parsed == ParsedEnumerated[CandidateName(plat, Candidate)]
          IN  /\ parsed.err = NoError
              /\ parsed.result = ConfigurationOf(plat, Candidate)
    /\ bpc = "done" /\ ~dry_run /\ caught = 0 =>
          /\ successful_presets = AnnouncedTotal
          /\ successful_presets = calls

C30_Witness ==
    /\ bpc = "done"
    /\ ~dry_run
    /\ ~limit.given
    /\ caught = 0
    /\ calls = 144
    /\ successful_presets = 144
    /\ announced = <<96, 48>>

====
